---- MODULE Spec2Model ----
(***************************************************************************)
(* A model of scheduler/scheduler.go: the per-user reminder scheduler.     *)
(*                                                                         *)
(* The Scheduler owns the map  timers : chatID -> *UserTimers.  Every      *)
(* time.AfterFunc callback runs on a goroutine of its own and nothing in   *)
(* the file takes a lock, so the caller's operations and the callbacks     *)
(* interleave statement by statement.  One action of the model is one      *)
(* statement that reads or writes the map or a timer, together with the    *)
(* statements before it that touch only locals, the user table or the      *)
(* network.                                                                *)
(*                                                                         *)
(* A time.Timer is known by its state and by the one place that points to  *)
(* it: a field of a UserTimers, or nothing at all (the timer is then lost: *)
(* it stays armed and nobody can stop it).  Lost timers that are armed are *)
(* counted per user and kind.  A timer is armed for a later wall-clock     *)
(* time, so it does not fire between time.AfterFunc and the next           *)
(* statement, which stores it.                                             *)
(* The goroutines of the callbacks are a bag of records; the caller (the   *)
(* bot's command layer) is one more goroutine.  Wall-clock time is a       *)
(* minute of the day, and an armed timer may fire at any moment.           *)
(***************************************************************************)
EXTENDS Integers, FiniteSets, Sequences, Bags, TLC

\* ---------------------------------------------------------------- bounds
NumUsers == 2
\* Timers that are armed at the same time.
MaxTimers == 7
\* Callback goroutines that run at the same time (besides the caller).
MaxCallbacks == 1
\* Armed timers that nothing points to any more.
MaxLost == 1
\* The dates the weekly digest is tried on: two weeks, from a Sunday on.
NumDays == 14
\* The date on which the other runs stand: day 10, a Wednesday.
Wednesday == 10

Users == 1..NumUsers
Days == 7..(6 + NumDays)

\* ------------------------------------------------------- program constants
DefaultOffset == 15

\* Minutes of the day at which the model looks at the clock.
Times == {510, 525, 630, 645, 825, 900}
\* Start times of the lectures a calendar feed may hold: 09:00, 10:45, 11:00, 14:00.
LectureStarts == {540, 645, 660, 840}
\* user.ReminderOffset as stored: a string.
OffsetStrings == {"15", "30", "abc"}

VARIABLES
    timers,    \* s.timers: chatID -> the UserTimers it points to, or no entry
    lost,      \* armed timers nothing points to, per user and kind
    caller,    \* the goroutine of the bot's command layer
    callbacks, \* the goroutines of the timer callbacks that are running (a bag)
    db,        \* the user table: who is registered, WebCalURL, ReminderOffset
    cal,       \* today's lectures in each user's feed (start minutes)
    now,       \* time.Now(), a minute of the day
    day,       \* time.Now(), the date: a day number, day 0 being a Sunday
    crashed,   \* an unrecovered panic ended the process
    last       \* history: what the caller's last operations were (see Call_*)

vars == <<timers, lost, caller, callbacks, db, cal, now, day, crashed, last>>

\* ------------------------------------------------------------------- data
\* A *time.Timer is "nil", or a timer that is "armed", has "fired" or was "stopped".
NoLectureTimers == [l \in LectureStarts |-> "nil"]

NoEntry == [exists |-> FALSE, dailyTimer |-> "nil", weeklyTimer |-> "nil",
            lectureScheduler |-> "nil", lectureTimers |-> NoLectureTimers]

\* &UserTimers{} (line 55)
UserTimers == [exists |-> TRUE, dailyTimer |-> "nil", weeklyTimer |-> "nil",
               lectureScheduler |-> "nil", lectureTimers |-> NoLectureTimers]

\* What a timer is for: the three schedules of ScheduleUser, or one lecture.
Kinds == {<<"daily", 0>>, <<"weekly", 0>>, <<"replanner", 0>>}
             \cup {<<"lecture", l>> : l \in LectureStarts}

NoneLost == [id \in Users |-> [k \in Kinds |-> 0]]

\* No week window has been computed.
NoWeek == <<0, 0>>

IdleThread == [pc |-> "idle", op |-> "none", id |-> 0, lec |-> 0,
               ret |-> "end", todo |-> {}, msg |-> "none", week |-> NoWeek]

NoHistory == <<"none", 0>>

CallerOps == {"ScheduleUser", "CancelUser", "StopAll", "ScheduleAll"}
IsCaller(t) == t.op \in CallerOps

\* The goroutines that are running.
Threads == (IF caller.pc = "idle" THEN {} ELSE {caller}) \cup BagToSet(callbacks)

\* timer.Stop(): an armed timer will not fire; any other is left as it is.
Stop(timer) == IF timer = "armed" THEN "stopped" ELSE timer

RECURSIVE SumOver(_, _)
SumOver(f, S) ==
    IF S = {} THEN 0
    ELSE LET x == CHOOSE y \in S : TRUE IN f[x] + SumOver(f, S \ {x})

\* The armed timers of one kind that a UserTimers points to (0 or 1).
InEntry(e, k) ==
    CASE k[1] = "daily"     -> IF e.dailyTimer = "armed" THEN 1 ELSE 0
      [] k[1] = "weekly"    -> IF e.weeklyTimer = "armed" THEN 1 ELSE 0
      [] k[1] = "replanner" -> IF e.lectureScheduler = "armed" THEN 1 ELSE 0
      [] k[1] = "lecture"   -> IF e.lectureTimers[k[2]] = "armed" THEN 1 ELSE 0

\* Every armed timer of user id and kind k, wherever it is.
Armed(id, k) == InEntry(timers[id], k) + lost[id][k]

ArmedOfUser(id) == SumOver([k \in Kinds |-> Armed(id, k)], Kinds)
TotalArmed == SumOver([id \in Users |-> ArmedOfUser(id)], Users)

\* The armed timers of e are lost when nothing points to e any more.
Lose(lk, id, e) ==
    [lk EXCEPT ![id] = [k \in Kinds |-> lk[id][k] + InEntry(e, k)]]

\* The cap on lost timers: a step that would lose one more waits.
Capped(lk) ==
    SumOver([id \in Users |-> SumOver(lk[id], Kinds)], Users) <= MaxLost

\* ------------------------------------------------------------ pure helpers
\* strconv.Atoi(user.ReminderOffset)
Atoi(str) ==
    CASE str = "15" -> [val |-> 15, err |-> FALSE]
      [] str = "30" -> [val |-> 30, err |-> FALSE]
      [] OTHER      -> [val |-> 0,  err |-> TRUE]

\* lines 114-117
OffsetMinutes(str) == IF Atoi(str).err THEN DefaultOffset ELSE Atoi(str).val

\* line 123: reminderTime := lecture.Start - offset
\* A reminder moment that takes the lead time off twice.
ReminderTime_Twice(start, offsetMinutes) == start - 2 * offsetMinutes
\* A test that also accepts a reminder moment equal to now.
ReminderDue_NotBefore(start, offsetMinutes, time) == start - offsetMinutes >= time
\* A daily message that forgets the user without a feed.
DailyMessage_NoPrompt(userOk, url, fetchOk, parseOk, lectures) ==
    IF ~fetchOk THEN "fetch_error"
    ELSE IF ~parseOk THEN "process_error"
    ELSE IF lectures = {} THEN "none_today"
    ELSE "daily_digest"

ReminderTime(start, offsetMinutes) == start - offsetMinutes
\* line 124: reminderTime.After(now)
ReminderDue(start, offsetMinutes, time) == ReminderTime(start, offsetMinutes) > time

\* lines 142-165: which message sendDailyTimetable hands to sendMessage.
DailyMessage(userOk, url, fetchOk, parseOk, lectures) ==
    IF ~userOk \/ url = "" THEN "prompt"
    ELSE IF ~fetchOk THEN "fetch_error"
    ELSE IF ~parseOk THEN "process_error"
    ELSE IF lectures = {} THEN "none_today"
    ELSE "daily_digest"

\* lines 169-212: which message sendWeeklyTimetable hands to sendMessage.
WeeklyMessage(userOk, url, fetchOk, parseOk, weekEmpty) ==
    IF ~userOk \/ url = "" THEN "prompt"
    ELSE IF ~fetchOk THEN "fetch_error"
    ELSE IF ~parseOk THEN "process_error"
    ELSE IF weekEmpty THEN "none_week"
    ELSE "weekly_digest"

\* now.Weekday(): Sunday is 0, Saturday is 6.
Weekday(d) == d % 7

\* lines 180-186: the first and the last day of the week the digest covers.
WeekWindow(d) ==
    LET weekday == IF Weekday(d) = 0 THEN 7 ELSE Weekday(d)
        weekStart == d - (weekday - 1)
        weekEnd == weekStart + 4
    IN <<weekStart, weekEnd>>

\* --------------------------------------------------------- control helpers
Keys == {id \in Users : timers[id].exists}

\* Goroutine t goes on as t2.
Become(t, t2) ==
    IF IsCaller(t)
    THEN caller' = t2 /\ UNCHANGED callbacks
    ELSE callbacks' = (callbacks (-) SetToBag({t})) (+) SetToBag({t2}) /\ UNCHANGED caller

\* Goroutine t ends.
Finish(t) ==
    IF IsCaller(t)
    THEN caller' = IdleThread /\ UNCHANGED callbacks
    ELSE callbacks' = callbacks (-) SetToBag({t}) /\ UNCHANGED caller

\* A return of ScheduleUser that also ends the loop of ScheduleAll.
ReturnFromScheduleUser_EndsLoop(t, hist) ==
    /\ Finish(t)
    /\ last' = hist

\* ScheduleUser returns (lines 50, 74): to ScheduleAll's loop, or the goroutine ends.
ReturnFromScheduleUser(t, hist) ==
    IF t.op = "ScheduleAll"
    THEN /\ Become(t, [t EXCEPT !.pc = "all_next", !.ret = "end"])
         /\ last' = hist
    ELSE /\ Finish(t)
         /\ last' = hist

\* CancelUser returns (line 239): into ScheduleUser, into StopAll's loop, or to the
\* caller. The history notes a CancelUser of the caller that found an entry, and
\* one that came right after it and found none.
ReturnFromCancelUser(t, found) ==
    IF t.op = "CancelUser"
    THEN /\ Finish(t)
         /\ last' = IF found THEN <<"cancel", t.id>>
                    ELSE IF last = <<"again", t.id>> THEN <<"twice", t.id>>
                    ELSE NoHistory
    ELSE /\ Become(t, [t EXCEPT !.pc = IF t.op = "StopAll" THEN "sa_next" ELSE "su_new"])
         /\ UNCHANGED last

\* scheduleLectureReminders returns (lines 100, 105, 111, 139): to the replanner
\* callback (line 83), or out of scheduleLectureRemindersAtMidnight and its caller.
ReturnFromReplan(t) ==
    IF t.ret = "am_arm"
    THEN /\ Become(t, [t EXCEPT !.pc = "am_arm", !.ret = "end"])
         /\ UNCHANGED last
    ELSE IF t.op = "replanner"
    THEN /\ Finish(t)
         /\ UNCHANGED last
    ELSE ReturnFromScheduleUser(t, last)

At(t, p) == ~crashed /\ t.pc = p

\* ------------------------------------------------------------ the caller
\* The bot's command layer invokes ScheduleUser(chatID). The history notes a
\* ScheduleUser that comes right after a CancelUser of the same user.
Call_ScheduleUser(id) ==
    /\ At(caller, "idle")
    /\ caller' = [IdleThread EXCEPT !.pc = "su_get", !.op = "ScheduleUser", !.id = id]
    /\ last' = IF last \in {<<"cancel", id>>, <<"selfsched", id>>}
               THEN <<"resched", id>> ELSE NoHistory
    /\ UNCHANGED <<timers, lost, callbacks, db, cal, now, day, crashed>>

Call_CancelUser(id) ==
    /\ At(caller, "idle")
    /\ caller' = [IdleThread EXCEPT !.pc = "cu_stop", !.op = "CancelUser", !.id = id]
    /\ last' = IF last = <<"cancel", id>> THEN <<"again", id>> ELSE NoHistory
    /\ UNCHANGED <<timers, lost, callbacks, db, cal, now, day, crashed>>

\* line 242: range s.timers starts.
Call_StopAll ==
    /\ At(caller, "idle")
    /\ caller' = [IdleThread EXCEPT !.pc = "sa_next", !.op = "StopAll", !.todo = Keys]
    /\ last' = NoHistory
    /\ UNCHANGED <<timers, lost, callbacks, db, cal, now, day, crashed>>

\* line 41: users, _ := s.db.GetAllUsers(): every registered user, in the order of
\* the table, or no user at all when the query fails.
Call_ScheduleAll ==
    /\ At(caller, "idle")
    /\ \E queryOk \in BOOLEAN :
         caller' = [IdleThread EXCEPT !.pc = "all_next", !.op = "ScheduleAll",
                       !.todo = IF queryOk THEN {id \in Users : db[id].registered} ELSE {}]
    /\ last' = NoHistory
    /\ UNCHANGED <<timers, lost, callbacks, db, cal, now, day, crashed>>

\* lines 42-44: the next user of the list, or the loop ends.
ScheduleAll_Next(t) ==
    /\ At(t, "all_next")
    /\ IF t.todo = {}
       THEN Finish(t)
       ELSE LET id == CHOOSE x \in t.todo : \A y \in t.todo : x <= y
            IN Become(t, [t EXCEPT !.pc = "su_get", !.id = id, !.todo = t.todo \ {id}])
    /\ UNCHANGED <<timers, lost, db, cal, now, day, crashed, last>>

\* lines 242-244: range over a map that is changing. Go produces every entry that
\* stays in the map, never one removed before it is reached, and may or may not
\* produce one inserted during the loop.
StopAll_Next(t) ==
    /\ At(t, "sa_next")
    /\ \/ \E id \in Keys :
            /\ Become(t, [t EXCEPT !.pc = "cu_stop", !.id = id,
                                   !.todo = (t.todo \cap Keys) \ {id}])
            /\ UNCHANGED last
       \/ /\ t.todo \cap Keys = {}
          /\ Finish(t)
          /\ last' = <<"stopall", 0>>
    /\ UNCHANGED <<timers, lost, db, cal, now, day, crashed>>

\* ------------------------------------------------------------- CancelUser
\* The UserTimers with every timer it points to stopped (lines 225-236).
\* Stops that forget the midnight replanner.
StopAllOf_NoReplanner(e) ==
    [e EXCEPT !.dailyTimer = Stop(e.dailyTimer),
              !.weeklyTimer = Stop(e.weeklyTimer),
              !.lectureTimers = [l \in LectureStarts |-> Stop(e.lectureTimers[l])]]

StopAllOf(e) ==
    [e EXCEPT !.dailyTimer = Stop(e.dailyTimer),
              !.weeklyTimer = Stop(e.weeklyTimer),
              !.lectureScheduler = Stop(e.lectureScheduler),
              !.lectureTimers = [l \in LectureStarts |-> Stop(e.lectureTimers[l])]]

\* A CancelUser that takes the entry for granted: it dereferences a nil
\* *UserTimers when the user has none.
CancelUser_Stop_NoCheck(t) ==
    /\ At(t, "cu_stop")
    /\ IF timers[t.id].exists
       THEN /\ timers' = [timers EXCEPT ![t.id] = StopAllOf(timers[t.id])]
            /\ Become(t, [t EXCEPT !.pc = "cu_delete"])
            /\ UNCHANGED <<last, crashed>>
       ELSE /\ crashed' = TRUE
            /\ UNCHANGED <<timers, caller, callbacks, last>>
    /\ UNCHANGED <<lost, db, cal, now, day>>

\* lines 224-236: look the entry up and stop every timer it holds.
CancelUser_Stop(t) ==
    /\ At(t, "cu_stop")
    /\ IF timers[t.id].exists
       THEN /\ timers' = [timers EXCEPT ![t.id] = StopAllOf(timers[t.id])]
            /\ Become(t, [t EXCEPT !.pc = "cu_delete"])
            /\ UNCHANGED last
       ELSE /\ ReturnFromCancelUser(t, FALSE)
            /\ UNCHANGED timers
    /\ UNCHANGED <<lost, db, cal, now, day, crashed>>

\* line 237: delete(s.timers, chatID). A timer stored in the entry since the
\* stops is still armed, and nothing points to it any more.
CancelUser_Delete(t) ==
    /\ At(t, "cu_delete")
    /\ timers' = [timers EXCEPT ![t.id] = NoEntry]
    /\ lost' = Lose(lost, t.id, timers[t.id])
    /\ Capped(lost')
    /\ ReturnFromCancelUser(t, TRUE)
    /\ UNCHANGED <<db, cal, now, day, crashed>>

\* ----------------------------------------------------------- ScheduleUser
\* A ScheduleUser that stops the timers of the entry before it reads the user.
ScheduleUser_GetUser_StopsFirst(t) ==
    /\ At(t, "su_get")
    /\ timers' = [timers EXCEPT ![t.id] =
                    IF timers[t.id].exists THEN StopAllOf(timers[t.id]) ELSE timers[t.id]]
    /\ \E readOk \in BOOLEAN :
         IF ~(readOk /\ db[t.id].registered)
         THEN ReturnFromScheduleUser(t, last)
         ELSE /\ UNCHANGED last
              /\ Become(t, [t EXCEPT !.pc = IF timers[t.id].exists
                                             THEN "cu_delete" ELSE "su_new"])
    /\ UNCHANGED <<lost, db, cal, now, day, crashed>>

\* lines 48-53 and 224-236: read the user record and return when there is none or
\* the read fails; else CancelUser looks the entry up and stops its timers. The
\* history notes a callback that invokes ScheduleUser for a user the caller has
\* cancelled and not scheduled since.
ScheduleUser_GetUser(t) ==
    /\ At(t, "su_get")
    /\ LET hist == IF ~IsCaller(t) /\ last = <<"cancel", t.id>>
                   THEN <<"selfsched", t.id>> ELSE last
       IN \E readOk \in BOOLEAN :
            IF ~(readOk /\ db[t.id].registered)
            THEN /\ ReturnFromScheduleUser(t, hist)
                 /\ UNCHANGED timers
            ELSE /\ last' = hist
                 /\ IF timers[t.id].exists
                    THEN /\ timers' = [timers EXCEPT ![t.id] = StopAllOf(timers[t.id])]
                         /\ Become(t, [t EXCEPT !.pc = "cu_delete"])
                    ELSE /\ Become(t, [t EXCEPT !.pc = "su_new"])
                         /\ UNCHANGED timers
    /\ UNCHANGED <<lost, db, cal, now, day, crashed>>

\* line 55: s.timers[chatID] = &UserTimers{}. Whatever the entry pointed to
\* before is no longer reachable.
ScheduleUser_New(t) ==
    /\ At(t, "su_new")
    /\ timers' = [timers EXCEPT ![t.id] = UserTimers]
    /\ lost' = Lose(lost, t.id, timers[t.id])
    /\ Capped(lost')
    /\ Become(t, [t EXCEPT !.pc = "su_daily"])
    /\ UNCHANGED <<db, cal, now, day, crashed, last>>

\* The UserTimers with one field set to a timer.
SetField(e, field, x) ==
    CASE field = "dailyTimer"       -> [e EXCEPT !.dailyTimer = x]
      [] field = "weeklyTimer"      -> [e EXCEPT !.weeklyTimer = x]
      [] field = "lectureScheduler" -> [e EXCEPT !.lectureScheduler = x]

FieldKind(field) ==
    CASE field = "dailyTimer"       -> <<"daily", 0>>
      [] field = "weeklyTimer"      -> <<"weekly", 0>>
      [] field = "lectureScheduler" -> <<"replanner", 0>>

\* lines 57-63, 65-71, 77-85: time.AfterFunc arms a timer, and
\* s.timers[chatID].<field> = <the timer> stores it. s.timers[chatID] is looked up
\* again: when the entry is gone it is a nil *UserTimers and the store panics. An
\* armed timer the field pointed to before is lost.
ArmAndStore(t, from, field, to) ==
    /\ At(t, from)
    /\ TotalArmed < MaxTimers
    /\ IF timers[t.id].exists
       THEN /\ timers' = [timers EXCEPT ![t.id] = SetField(timers[t.id], field, "armed")]
            /\ lost' = [lost EXCEPT ![t.id][FieldKind(field)] =
                           @ + InEntry(timers[t.id], FieldKind(field))]
            /\ Capped(lost')
            /\ Become(t, [t EXCEPT !.pc = to])
            /\ UNCHANGED crashed
       ELSE /\ crashed' = TRUE
            /\ UNCHANGED <<timers, lost, caller, callbacks>>
    /\ UNCHANGED <<db, cal, now, day, last>>

ScheduleUser_Daily(t) == ArmAndStore(t, "su_daily", "dailyTimer", "su_weekly")
ScheduleUser_Weekly(t) == ArmAndStore(t, "su_weekly", "weeklyTimer", "am_arm")

\* ------------------------------------- scheduleLectureRemindersAtMidnight
AtMidnight(t) == ArmAndStore(t, "am_arm", "lectureScheduler", "lr_clear")

\* ---------------------------------------------- scheduleLectureReminders
\* A replan that starts without stopping the recorded lecture timers.
Replan_Clear_Keeps(t) ==
    /\ At(t, "lr_clear")
    /\ Become(t, [t EXCEPT !.pc = "lr_plan"])
    /\ UNCHANGED <<timers, lost, db, cal, now, day, crashed, last>>

\* lines 91-96: stop the recorded lecture timers and forget them.
Replan_Clear(t) ==
    /\ At(t, "lr_clear")
    /\ IF timers[t.id].exists
       THEN timers' = [timers EXCEPT ![t.id].lectureTimers = NoLectureTimers]
       ELSE UNCHANGED timers
    /\ Become(t, [t EXCEPT !.pc = "lr_plan"])
    /\ UNCHANGED <<lost, db, cal, now, day, crashed, last>>

\* The lectures of a fetched day that get a reminder timer (lines 122-137).
ToRemind(lectures, offsetMinutes, time) ==
    {l \in lectures : ReminderDue(l, offsetMinutes, time)}

\* lines 98-138: read the user, fetch today's lectures, arm one timer per lecture
\* whose reminder moment is after now, and store the new slice:
\* s.timers[chatID].lectureTimers = timers (a nil entry panics). Armed timers of
\* the slice that is replaced are lost.
Replan_Plan(t) ==
    /\ At(t, "lr_plan")
    /\ LET user == db[t.id]
       IN \E readOk, fetchOk \in BOOLEAN :
            IF ~readOk \/ ~user.registered \/ user.WebCalURL = "" \/ ~fetchOk
                 \/ cal[t.id] = {}
            THEN /\ ReturnFromReplan(t)
                 /\ UNCHANGED <<timers, lost, crashed>>
            ELSE LET S == ToRemind(cal[t.id], OffsetMinutes(user.ReminderOffset), now)
                 IN /\ TotalArmed + Cardinality(S) <= MaxTimers
                    /\ IF timers[t.id].exists
                       THEN /\ timers' = [timers EXCEPT ![t.id].lectureTimers =
                                            [l \in LectureStarts |->
                                               IF l \in S THEN "armed" ELSE "nil"]]
                            /\ lost' = [lost EXCEPT ![t.id] =
                                          [k \in Kinds |->
                                             IF k[1] = "lecture"
                                             THEN @[k] + InEntry(timers[t.id], k)
                                             ELSE @[k]]]
                            /\ Capped(lost')
                            /\ ReturnFromReplan(t)
                            /\ UNCHANGED crashed
                       ELSE /\ crashed' = TRUE
                            /\ UNCHANGED <<timers, lost, caller, callbacks, last>>
    /\ UNCHANGED <<db, cal, now, day>>

\* ---------------------------------------------------------------- timers
\* The goroutine the runtime starts when a timer fires: the callback of lines
\* 59-62 (daily), 67-70 (weekly), 81-84 (replanner) or 127-134 (lecture).
Callback(k, id) ==
    [IdleThread EXCEPT
       !.op = k[1], !.id = id, !.lec = k[2],
       !.pc = CASE k[1] = "daily"     -> "daily_digest"
                [] k[1] = "weekly"    -> "weekly_digest"
                [] k[1] = "replanner" -> "lr_clear"
                [] k[1] = "lecture"   -> "sendMessage",
       !.ret = IF k[1] = "replanner" THEN "am_arm" ELSE "end",
       !.msg = IF k[1] = "lecture" THEN "reminder" ELSE "none"]

CanFire == ~crashed /\ BagCardinality(callbacks) < MaxCallbacks

\* An armed timer that a UserTimers field points to fires.
Fire_Field(id, field) ==
    /\ CanFire
    /\ InEntry(timers[id], FieldKind(field)) = 1
    /\ timers' = [timers EXCEPT ![id] = SetField(timers[id], field, "fired")]
    /\ callbacks' = callbacks (+) SetToBag({Callback(FieldKind(field), id)})
    /\ UNCHANGED <<lost, caller, db, cal, now, day, crashed, last>>

\* An armed lecture timer of the recorded slice fires.
Fire_Lecture(id, l) ==
    /\ CanFire
    /\ timers[id].lectureTimers[l] = "armed"
    /\ timers' = [timers EXCEPT ![id].lectureTimers[l] = "fired"]
    /\ callbacks' = callbacks (+) SetToBag({Callback(<<"lecture", l>>, id)})
    /\ UNCHANGED <<lost, caller, db, cal, now, day, crashed, last>>

\* An armed timer nothing points to fires.
Fire_Lost(id, k) ==
    /\ CanFire
    /\ lost[id][k] > 0
    /\ lost' = [lost EXCEPT ![id][k] = @ - 1]
    /\ callbacks' = callbacks (+) SetToBag({Callback(k, id)})
    /\ UNCHANGED <<timers, caller, db, cal, now, day, crashed, last>>

\* lines 141-166: sendDailyTimetable up to its call of sendMessage.
sendDailyTimetable(t) ==
    /\ At(t, "daily_digest")
    /\ \E readOk, fetchOk, parseOk \in BOOLEAN :
         Become(t, [t EXCEPT !.pc = "sendMessage",
                             !.msg = DailyMessage(readOk /\ db[t.id].registered,
                                                  db[t.id].WebCalURL,
                                                  fetchOk, parseOk, cal[t.id])])
    /\ UNCHANGED <<timers, lost, db, cal, now, day, crashed, last>>

\* lines 168-213: sendWeeklyTimetable up to its call of sendMessage.
sendWeeklyTimetable(t) ==
    /\ At(t, "weekly_digest")
    /\ \E readOk, fetchOk, parseOk, weekEmpty \in BOOLEAN :
         Become(t, [t EXCEPT !.pc = "sendMessage",
                             !.msg = WeeklyMessage(readOk /\ db[t.id].registered,
                                                   db[t.id].WebCalURL,
                                                   fetchOk, parseOk, weekEmpty),
                             !.week = IF readOk /\ db[t.id].registered
                                         /\ db[t.id].WebCalURL # "" /\ fetchOk
                                      THEN WeekWindow(day) ELSE NoWeek])
    /\ UNCHANGED <<timers, lost, db, cal, now, day, crashed, last>>

\* lines 215-221: the message goes out; a digest callback goes on to ScheduleUser
\* (lines 61, 69), a lecture callback ends.
sendMessage(t) ==
    /\ At(t, "sendMessage")
    /\ IF t.op = "lecture"
       THEN Finish(t)
       ELSE Become(t, [t EXCEPT !.pc = "su_get", !.msg = "none", !.week = NoWeek])
    /\ UNCHANGED <<timers, lost, db, cal, now, day, crashed, last>>

\* The wall clock moves on to the next minute the model looks at (and round midnight).
Tick ==
    /\ ~crashed
    /\ now' = IF \E m \in Times : m > now
              THEN CHOOSE m \in Times : m > now /\ \A k \in Times : k > now => m <= k
              ELSE CHOOSE m \in Times : \A k \in Times : m <= k
    /\ UNCHANGED <<timers, lost, caller, callbacks, db, cal, day, crashed, last>>


\* NewScheduler (lines 32-38): an empty map, no timer, nothing running.
NewScheduler ==
    /\ timers = [id \in Users |-> NoEntry]
    /\ lost = NoneLost
    /\ caller = IdleThread
    /\ callbacks = EmptyBag
    /\ crashed = FALSE
    /\ last = NoHistory

User(registered, url, offset) ==
    [registered |-> registered, WebCalURL |-> url, ReminderOffset |-> offset]

\* Both users are registered: user 1 has a calendar feed with no lecture today,
\* user 2 has set no feed.
TwoUsers ==
    /\ db = [id \in Users |-> User(TRUE, IF id = 1 THEN "webcal" ELSE "", "15")]
    /\ cal = [id \in Users |-> {}]
    /\ now = 630
    /\ day = Wednesday

\* Only user 1 is registered; the feed has a lecture at 14:00 and it is 10:30.
OneUser ==
    /\ db = [id \in Users |-> User(id = 1, IF id = 1 THEN "webcal" ELSE "", "15")]
    /\ cal = [id \in Users |-> IF id = 1 THEN {840} ELSE {}]
    /\ now = 630
    /\ day = Wednesday

Init == NewScheduler /\ (TwoUsers \/ OneUser)

\* The feeds the replan is tried on: any of the lectures, or none.
Calendars == SUBSET LectureStarts

\* Only user 1 is registered; any feed, any stored offset, any time of the day.
InitPlan ==
    /\ NewScheduler
    /\ \E offset \in OffsetStrings :
         db = [id \in Users |-> User(id = 1, IF id = 1 THEN "webcal" ELSE "", offset)]
    /\ \E lectures \in Calendars :
         cal = [id \in Users |-> IF id = 1 THEN lectures ELSE {}]
    /\ now \in Times
    /\ day = Wednesday

Fields == {"dailyTimer", "weeklyTimer", "lectureScheduler"}

Next ==
    \/ \E id \in Users : Call_ScheduleUser(id)
    \/ \E id \in Users : Call_CancelUser(id)
    \/ Call_StopAll
    \/ Call_ScheduleAll
    \/ \E id \in Users, field \in Fields : Fire_Field(id, field)
    \/ \E id \in Users, l \in LectureStarts : Fire_Lecture(id, l)
    \/ \E id \in Users, k \in Kinds : Fire_Lost(id, k)
    \/ \E t \in Threads : ScheduleAll_Next(t)
    \/ \E t \in Threads : StopAll_Next(t)
    \/ \E t \in Threads : CancelUser_Stop(t)
    \/ \E t \in Threads : CancelUser_Delete(t)
    \/ \E t \in Threads : ScheduleUser_GetUser(t)
    \/ \E t \in Threads : ScheduleUser_New(t)
    \/ \E t \in Threads : ScheduleUser_Daily(t)
    \/ \E t \in Threads : ScheduleUser_Weekly(t)
    \/ \E t \in Threads : AtMidnight(t)
    \/ \E t \in Threads : Replan_Clear(t)
    \/ \E t \in Threads : Replan_Plan(t)
    \/ \E t \in Threads : sendDailyTimetable(t)
    \/ \E t \in Threads : sendWeeklyTimetable(t)
    \/ \E t \in Threads : sendMessage(t)

\* The scheduler with its caller and every callback, time standing at 10:30.
Spec == Init /\ [][Next]_vars

\* The caller schedules the registered user again and again while the clock runs
\* and lecture reminders fire.
NextPlan ==
    \/ \E id \in Users : db[id].registered /\ Call_ScheduleUser(id)
    \/ \E id \in Users, l \in LectureStarts : Fire_Lecture(id, l)
    \/ \E t \in Threads : CancelUser_Delete(t)
    \/ \E t \in Threads : ScheduleUser_GetUser(t)
    \/ \E t \in Threads : ScheduleUser_New(t)
    \/ \E t \in Threads : ScheduleUser_Daily(t)
    \/ \E t \in Threads : ScheduleUser_Weekly(t)
    \/ \E t \in Threads : AtMidnight(t)
    \/ \E t \in Threads : Replan_Clear(t)
    \/ \E t \in Threads : Replan_Plan(t)
    \/ \E t \in Threads : sendMessage(t)
    \/ Tick

PlanSpec == InitPlan /\ [][NextPlan]_vars

\* The date moves on to the next day (and back to the first after the last).
NextDay ==
    /\ ~crashed
    /\ day' = IF day + 1 \in Days THEN day + 1 ELSE 7
    /\ UNCHANGED <<timers, lost, caller, callbacks, db, cal, now, crashed, last>>

\* Only user 1 is registered, with a feed; any date of the two weeks.
InitWeek ==
    /\ NewScheduler
    /\ db = [id \in Users |-> User(id = 1, IF id = 1 THEN "webcal" ELSE "", "15")]
    /\ cal = [id \in Users |-> {}]
    /\ now = 630
    /\ day \in Days

\* The caller schedules the user once and again; the weekly timer fires on any
\* day of the week and its callback sends the digest and schedules the user again.
NextWeek ==
    \/ \E id \in Users : db[id].registered /\ Call_ScheduleUser(id)
    \/ \E id \in Users : Fire_Field(id, "weeklyTimer")
    \/ \E t \in Threads : CancelUser_Delete(t)
    \/ \E t \in Threads : ScheduleUser_GetUser(t)
    \/ \E t \in Threads : ScheduleUser_New(t)
    \/ \E t \in Threads : ScheduleUser_Daily(t)
    \/ \E t \in Threads : ScheduleUser_Weekly(t)
    \/ \E t \in Threads : AtMidnight(t)
    \/ \E t \in Threads : Replan_Clear(t)
    \/ \E t \in Threads : Replan_Plan(t)
    \/ \E t \in Threads : sendWeeklyTimetable(t)
    \/ \E t \in Threads : sendMessage(t)
    \/ NextDay

WeekSpec == InitWeek /\ [][NextWeek]_vars

\* The caller schedules users, one by one or all of them, and never cancels one;
\* the timers fire and their callbacks run.
NextChain ==
    \/ \E id \in Users : Call_ScheduleUser(id)
    \/ Call_ScheduleAll
    \/ \E id \in Users, field \in Fields : Fire_Field(id, field)
    \/ \E id \in Users, l \in LectureStarts : Fire_Lecture(id, l)
    \/ \E id \in Users, k \in Kinds : Fire_Lost(id, k)
    \/ \E t \in Threads : ScheduleAll_Next(t)
    \/ \E t \in Threads : CancelUser_Delete(t)
    \/ \E t \in Threads : ScheduleUser_GetUser(t)
    \/ \E t \in Threads : ScheduleUser_New(t)
    \/ \E t \in Threads : ScheduleUser_Daily(t)
    \/ \E t \in Threads : ScheduleUser_Weekly(t)
    \/ \E t \in Threads : AtMidnight(t)
    \/ \E t \in Threads : Replan_Clear(t)
    \/ \E t \in Threads : Replan_Plan(t)
    \/ \E t \in Threads : sendDailyTimetable(t)
    \/ \E t \in Threads : sendWeeklyTimetable(t)
    \/ \E t \in Threads : sendMessage(t)

ChainSpec == Init /\ [][NextChain]_vars

\* ================================================================ claims
ArmedLectures(e) == {l \in LectureStarts : e.lectureTimers[l] = "armed"}
Schedules == {<<"daily", 0>>, <<"weekly", 0>>, <<"replanner", 0>>}

\* ScheduleUser returns from line 74 in this step (not from line 50, not by a panic).
Completes(t) ==
    /\ Replan_Plan(t)
    /\ t.ret = "end"
    /\ t.op # "replanner"
    /\ ~crashed'

\* C1: when ScheduleUser(id) returns from its last line, the entry of id holds a
\* daily and a weekly timer and no second armed daily or weekly timer of id
\* exists. (The timer the entry holds may have fired already: the formula asks
\* less than the claim, which wants it armed.)
C1_OneDailyOneWeekly ==
    [][\A t \in Threads :
         Completes(t) =>
            /\ timers'[t.id].exists
            /\ timers'[t.id].dailyTimer \in {"armed", "fired"}
            /\ timers'[t.id].weeklyTimer \in {"armed", "fired"}
            /\ Armed(t.id, <<"daily", 0>>)' <= 1
            /\ Armed(t.id, <<"weekly", 0>>)' <= 1]_vars

\* C2: in every state, every user has at most one armed daily, one armed weekly
\* and one armed midnight-replanner timer.
C2_AtMostOneOfEach ==
    \A id \in Users : \A k \in Schedules : Armed(id, k) <= 1

\* C3: in every state, every armed timer of a user is one that the user's entry
\* in the map points to (no armed timer is lost).
C3_NoLostTimer ==
    \A id \in Users : \A k \in Kinds : lost[id][k] = 0

\* C4: once StopAll has returned (and the caller has invoked nothing since), no
\* timer is armed, so none can fire and deliver a message.
C4_NothingArmedAfterStopAll ==
    (last = <<"stopall", 0>>) => TotalArmed = 0

\* C5: after a CancelUser(id) that found an entry, followed at once by a
\* ScheduleUser(id) that installed a new one, both returned, id has at most one
\* armed daily timer and no armed daily timer outside its new entry.
C5_NoGhostAfterReschedule ==
    \A id \in Users :
        (/\ last = <<"resched", id>>
         /\ caller.pc = "idle"
         /\ timers[id].exists
         /\ timers[id].dailyTimer # "nil") =>
            /\ Armed(id, <<"daily", 0>>) <= 1
            /\ lost[id][<<"daily", 0>>] = 0

\* C6: the stops of CancelUser(id) leave no timer of id's entry armed (a fired
\* timer stays fired), its delete removes the entry, and neither step changes
\* the entry or the timers of another user.
C6_CancelUserStopsAndRemoves ==
    [][\A t \in Threads :
         /\ (CancelUser_Stop(t) /\ timers[t.id].exists) =>
               /\ \A k \in Kinds : InEntry(timers'[t.id], k) = 0
               /\ timers[t.id].dailyTimer # "armed" =>
                     timers'[t.id].dailyTimer = timers[t.id].dailyTimer
               /\ timers[t.id].weeklyTimer # "armed" =>
                     timers'[t.id].weeklyTimer = timers[t.id].weeklyTimer
               /\ timers[t.id].lectureScheduler # "armed" =>
                     timers'[t.id].lectureScheduler = timers[t.id].lectureScheduler
               /\ \A o \in Users \ {t.id} : timers'[o] = timers[o]
               /\ lost' = lost
         /\ CancelUser_Delete(t) =>
               /\ ~timers'[t.id].exists
               /\ \A o \in Users \ {t.id} : timers'[o] = timers[o] /\ lost'[o] = lost[o]]_vars

\* C6 witness: CancelUser(1) has stopped an armed timer and left a fired one as it
\* was, while user 2 keeps an entry with an armed timer.
C6_Witness ==
    /\ caller.op = "CancelUser" /\ caller.pc = "cu_delete" /\ caller.id = 1
    /\ timers[1].dailyTimer = "fired"
    /\ timers[1].weeklyTimer = "stopped"
    /\ timers[1].lectureScheduler = "stopped"
    /\ timers[2].exists /\ timers[2].dailyTimer = "armed"

\* C7: once CancelUser(id) has returned, and until ScheduleUser(id) is invoked
\* again, no midnight-replanner timer of id is armed and no goroutine is in a
\* lecture replan for id.
C7_NoReplanAfterCancel ==
    \A id \in Users :
        (last = <<"cancel", id>>) =>
            /\ Armed(id, <<"replanner", 0>>) = 0
            /\ \A t \in Threads : t.id = id => t.pc \notin {"lr_clear", "lr_plan"}

\* C8: a replan arms a reminder timer for a lecture of the fetched day if and only
\* if start - lead is strictly after now (a replan that stops early arms none),
\* and the replan itself sends nothing.
C8_ArmedIffStrictlyFuture ==
    [][\A t \in Threads :
         (Replan_Plan(t) /\ ~crashed') =>
            LET id == t.id
                lead == OffsetMinutes(db[id].ReminderOffset)
                A == IF timers'[id].exists THEN ArmedLectures(timers'[id]) ELSE {}
            IN /\ \/ A = {}
                  \/ \A l \in LectureStarts :
                        l \in A <=> (l \in cal[id] /\ l - lead > now)
               /\ \A l \in A : l \in cal[id] /\ l - lead > now
               /\ \A u \in BagToSet(callbacks') : u.pc = "sendMessage" =>
                     CopiesIn(u, callbacks') <= CopiesIn(u, callbacks)]_vars

\* C8 witness: after a replan at 10:30 with a 15-minute lead, the 11:00 lecture has
\* a timer and the 10:45 lecture, whose reminder moment is 10:30 itself, has none.
C8_Witness ==
    /\ now = 630 /\ db[1].ReminderOffset = "15" /\ cal[1] = LectureStarts
    /\ caller.pc = "idle"
    /\ timers[1].exists
    /\ timers[1].lectureTimers[645] = "nil"
    /\ timers[1].lectureTimers[540] = "nil"
    /\ timers[1].lectureTimers[660] = "armed"
    /\ timers[1].lectureTimers[840] = "armed"

\* The replan of the example: lectures at 09:00, 11:00 and 14:00, now 10:30, a lead
\* of 15 minutes.
ExampleReplan(t) ==
    /\ Replan_Plan(t)
    /\ ~crashed'
    /\ cal[t.id] = {540, 660, 840}
    /\ now = 630
    /\ OffsetMinutes(db[t.id].ReminderOffset) = 15

\* C9 as stated: in the example only the 14:00 reminder is armed, not the 11:00 one.
C9_Only1400Armed ==
    [][\A t \in Threads :
         ExampleReplan(t) => ArmedLectures(timers'[t.id]) \subseteq {840}]_vars

\* C9 as amended: in the example the replan arms the 11:00 and the 14:00 reminders
\* (10:45 is still after 10:30) and not the 09:00 one, unless it stops early.
C9_1100And1400Armed ==
    [][\A t \in Threads :
         ExampleReplan(t) =>
            \/ ArmedLectures(timers'[t.id]) = {}
            \/ ArmedLectures(timers'[t.id]) = {660, 840}]_vars

\* C9 witness: the example's replan has armed the 11:00 and 14:00 reminders.
C9_Witness ==
    /\ cal[1] = {540, 660, 840} /\ now = 630 /\ db[1].ReminderOffset = "15"
    /\ caller.pc = "idle"
    /\ timers[1].lectureTimers[660] = "armed"
    /\ timers[1].lectureTimers[840] = "armed"
    /\ timers[1].lectureTimers[540] = "nil"

NoFeed(id) == db[id].WebCalURL = ""

\* C10: for a user with no calendar feed, the steps of ScheduleUser arm the daily
\* and the weekly timer, no lecture timer is ever armed, and the message the fired
\* daily timer's callback sends is the "set your calendar" prompt.
C10_NoFeed ==
    [][\A id \in Users :
         NoFeed(id) =>
            /\ \A t \in Threads :
                  t.id = id =>
                     /\ (ScheduleUser_Daily(t) /\ ~crashed') =>
                           timers'[id].dailyTimer = "armed"
                     /\ (ScheduleUser_Weekly(t) /\ ~crashed') =>
                           timers'[id].weeklyTimer = "armed"
            /\ \A l \in LectureStarts : Armed(id, <<"lecture", l>>)' = 0
            /\ \A u \in BagToSet(callbacks') :
                  (u.id = id /\ u.op = "daily" /\ u.pc = "sendMessage") =>
                      u.msg = "prompt"]_vars

\* C10 witness: user 2 has no feed; ScheduleUser armed its timers, the daily one
\* fired and its callback is about to send the prompt.
C10_Witness ==
    /\ NoFeed(2)
    /\ timers[2].exists
    /\ timers[2].dailyTimer = "fired"
    /\ timers[2].weeklyTimer = "armed"
    /\ ArmedLectures(timers[2]) = {}
    /\ \E u \in BagToSet(callbacks) :
          u.id = 2 /\ u.op = "daily" /\ u.pc = "sendMessage" /\ u.msg = "prompt"
\* C11: when sendWeeklyTimetable computes the week window, it is Monday to Friday
\* of the same week for a now of Monday to Friday, and Monday to Friday of the
\* next week for a now of Saturday or Sunday.
C11_WeekWindowRollsForward ==
    [][\A t \in Threads :
         sendWeeklyTimetable(t) =>
            \A u \in BagToSet(callbacks') :
               (u.id = t.id /\ u.op = "weekly" /\ u.week # NoWeek) =>
                  LET wd == day % 7
                      monday == IF wd \in 1..5 THEN day - (wd - 1)
                                ELSE IF wd = 6 THEN day + 2
                                ELSE day + 1
                  IN u.week = <<monday, monday + 4>>]_vars
\* C12: no step of any goroutine dereferences a missing entry of the map: the
\* process never ends by a panic.
C12_NoPanic == crashed = FALSE
\* Goroutine t has returned from ScheduleUser in this step: it has ended (or ended
\* ScheduleUser inside ScheduleAll's loop).
Returned(t) ==
    IF IsCaller(t)
    THEN caller'.pc \in {"idle", "all_next"}
    ELSE BagCardinality(callbacks') < BagCardinality(callbacks)

\* C13: a ScheduleUser(id) whose user record is not found returns at once, and a
\* ScheduleUser that returns at its read of the user record has changed neither
\* the map nor any timer, has raised no panic and has sent no message.
C13_UnreadableUserIsNoOp ==
    [][\A t \in Threads :
         ScheduleUser_GetUser(t) =>
            /\ ~db[t.id].registered => Returned(t)
            /\ Returned(t) =>
                  /\ timers' = timers
                  /\ lost' = lost
                  /\ crashed' = crashed
                  /\ \A u \in BagToSet(callbacks') :
                        u.pc = "sendMessage" =>
                           CopiesIn(u, callbacks') <= CopiesIn(u, callbacks)]_vars

\* C13 witness: the daily timer of user 1 has fired and its callback has ended,
\* yet the entry is the one that was there: the callback's ScheduleUser could not
\* read the user and left the weekly timer and the replanner armed.
C13_Witness ==
    /\ ~crashed /\ callbacks = EmptyBag /\ caller.pc = "idle"
    /\ timers[1].exists
    /\ timers[1].dailyTimer = "fired"
    /\ timers[1].weeklyTimer = "armed"
    /\ timers[1].lectureScheduler = "armed"
    /\ \A id \in Users : \A k \in Kinds : lost[id][k] = 0
\* C14: a CancelUser(id) that finds no entry for id, be it the second of two in a
\* row or the first, returns without a panic and leaves the map, every timer
\* and the lost timers as they were.
C14_CancelUserIdempotent ==
    [][\A t \in Threads :
         (CancelUser_Stop(t) /\ ~timers[t.id].exists) =>
            /\ timers' = timers
            /\ lost' = lost
            /\ crashed' = FALSE
            /\ t.op = "CancelUser" => caller' = IdleThread]_vars

\* C14 witness: the caller's second CancelUser(1) in a row has returned; user 1 has
\* no entry and user 2 still has its armed timers.
C14_Witness ==
    /\ last = <<"twice", 1>> /\ caller.pc = "idle" /\ ~crashed
    /\ ~timers[1].exists
    /\ timers[2].exists
    /\ timers[2].dailyTimer = "armed" /\ timers[2].weeklyTimer = "armed"
\* C15: ScheduleAll lists the registered users (no user when the query fails, and
\* then it ends having changed nothing); its loop calls ScheduleUser for every
\* user of the list, one after the other; a ScheduleUser that cannot read its user
\* creates no entry and the loop goes on with the rest of the list; one that can
\* creates the user's entry; and an unregistered user never has an entry.
C15_ScheduleAllGoesOn ==
    [][/\ Call_ScheduleAll =>
            /\ caller'.todo \in {{}, {id \in Users : db[id].registered}}
            /\ timers' = timers /\ lost' = lost /\ crashed' = FALSE
       /\ \A t \in Threads :
            t.op = "ScheduleAll" =>
               /\ (ScheduleAll_Next(t) /\ t.todo # {}) =>
                     /\ caller'.pc = "su_get"
                     /\ caller'.id \in t.todo
                     /\ caller'.todo = t.todo \ {caller'.id}
                     /\ timers' = timers
               /\ (ScheduleAll_Next(t) /\ t.todo = {}) =>
                     /\ caller' = IdleThread
                     /\ timers' = timers /\ lost' = lost /\ crashed' = FALSE
               /\ ScheduleUser_GetUser(t) =>
                     /\ caller'.todo = t.todo
                     /\ \/ caller'.pc = "all_next" /\ timers' = timers
                        \/ caller'.pc \in {"cu_delete", "su_new"}
               /\ ScheduleUser_New(t) =>
                     timers'[t.id].exists /\ caller'.todo = t.todo
               /\ (Replan_Plan(t) /\ ~crashed') =>
                     caller'.pc = "all_next" /\ caller'.todo = t.todo
       /\ \A id \in Users : ~db[id].registered => ~timers'[id].exists]_vars

\* C15 witness: ScheduleAll has gone through its list; user 1, registered, could not
\* be read and has no entry, user 2 after it has its timer set.
C15_Witness ==
    /\ caller.op = "ScheduleAll" /\ caller.pc = "all_next" /\ caller.todo = {}
    /\ ~crashed /\ callbacks = EmptyBag
    /\ \A id \in Users : \A k \in Kinds : lost[id][k] = 0
    /\ db[1].registered /\ ~timers[1].exists
    /\ timers[2].exists
    /\ timers[2].dailyTimer = "armed" /\ timers[2].weeklyTimer = "armed"
\* C16: the first step of a replan, before the one that fetches the calendar,
\* leaves no recorded lecture timer of the user armed; and a replan that stops
\* early (no user record, no feed, a failed fetch, no lecture today) arms and
\* stores nothing, loses nothing and sends no message.
C16_ClearBeforeFetch ==
    [][\A t \in Threads :
         /\ (Replan_Clear(t) /\ timers[t.id].exists) =>
               /\ \A l \in LectureStarts : InEntry(timers'[t.id], <<"lecture", l>>) = 0
               /\ lost' = lost
               /\ \E u \in Threads' : u.id = t.id /\ u.pc = "lr_plan"
         /\ (Replan_Plan(t) /\ ~crashed') =>
               /\ (~db[t.id].registered \/ NoFeed(t.id) \/ cal[t.id] = {}) =>
                      timers' = timers /\ lost' = lost
               /\ \/ timers' = timers /\ lost' = lost
                  \/ /\ timers'[t.id].exists
                     /\ ArmedLectures(timers'[t.id]) =
                           {l \in cal[t.id] :
                              l - OffsetMinutes(db[t.id].ReminderOffset) > now}
               /\ \A u \in BagToSet(callbacks') :
                     u.pc = "sendMessage" =>
                        CopiesIn(u, callbacks') <= CopiesIn(u, callbacks)]_vars

\* C16 witness: the midnight replanner of user 1 fired; its replan has returned
\* early, for the 14:00 lecture of the feed is due and has no timer; no lecture
\* timer is armed any more and no message is on its way.
C16_Witness ==
    /\ ~crashed /\ caller.pc = "idle"
    /\ cal[1] = {840} /\ now = 630
    /\ timers[1].exists
    /\ timers[1].lectureTimers = NoLectureTimers
    /\ \A l \in LectureStarts : lost[1][<<"lecture", l>>] = 0
    /\ \E u \in BagToSet(callbacks) :
          u.op = "replanner" /\ u.id = 1 /\ u.pc = "am_arm" /\ u.msg = "none"
\* C17: in every state, every user has at most one armed reminder timer for each
\* lecture of the day.
C17_OneReminderPerLecture ==
    \A id \in Users : \A l \in LectureStarts : Armed(id, <<"lecture", l>>) <= 1
\* C18: the callback of a daily or weekly timer of a user nobody cancels does not
\* panic in the ScheduleUser it re-invokes, and when that ScheduleUser returns
\* from its last line the user's entry holds a daily and a weekly timer and the
\* user has no second armed daily or weekly timer. (The formula asks less than
\* the claim: the timers of the entry may have fired again already.)
C18_ChainReArmsOnce ==
    [][\A t \in Threads :
         t.op \in {"daily", "weekly"} =>
            /\ (ScheduleUser_Daily(t) \/ ScheduleUser_Weekly(t) \/ AtMidnight(t)
                   \/ Replan_Plan(t)) => ~crashed'
            /\ Completes(t) =>
                  /\ timers'[t.id].exists
                  /\ timers'[t.id].dailyTimer \in {"armed", "fired"}
                  /\ timers'[t.id].weeklyTimer \in {"armed", "fired"}
                  /\ Armed(t.id, <<"daily", 0>>)' <= 1
                  /\ Armed(t.id, <<"weekly", 0>>)' <= 1]_vars
\* C19: the callback of the midnight replanner of a user nobody cancels does not
\* panic, and when it ends the user's entry holds a replanner timer and the user
\* has no second armed replanner timer. (The formula asks less than the claim:
\* the replanner of the entry may have fired again already.)
C19_ReplannerReArmsOnce ==
    [][\A t \in Threads :
         t.op = "replanner" =>
            /\ (AtMidnight(t) \/ Replan_Plan(t)) => ~crashed'
            /\ (Replan_Plan(t) /\ t.ret = "end") =>
                  /\ timers'[t.id].exists
                  /\ timers'[t.id].lectureScheduler \in {"armed", "fired"}
                  /\ Armed(t.id, <<"replanner", 0>>)' <= 1]_vars
\* C20: once the caller's CancelUser(id) has returned, and until the caller invokes
\* ScheduleUser(id), the map holds no entry for id. (The formula asks less than
\* the claim, which also wants no armed timer of id outside the map.)
C20_CancelledStaysCancelled ==
    \A id \in Users :
        (last \in {<<"cancel", id>>, <<"selfsched", id>>}) => ~timers[id].exists
====
